---- MODULE Spec2Model ----
(***************************************************************************)
(* Avellaneda-Stoikov quoting engine (src/src/strategies/                  *)
(* avellaneda_stoikov.rs).                                                 *)
(*                                                                         *)
(* f64 values are modelled in fixed point:                                 *)
(*   prices of snapshots and bars    whole price units                     *)
(*   mid-price, quote prices, spread 1/QuoteScale of a price unit          *)
(*   volatility                      1/VolScale  (0.01 is VolScale/100)    *)
(*   logarithms                      1/LnScale                             *)
(*   quantities, inventory, sizes    1/QtyScale                            *)
(*   risk_aversion, price_sensitivity 1/GammaScale                         *)
(* plus the value NaN, which an f64 computation produces from inf - inf,   *)
(* 0/0 and ln of a negative number and which every later operation         *)
(* propagates.                                                             *)
(***************************************************************************)
EXTENDS Integers, Sequences, FiniteSets, TLC

(***************************************************************************)
(* Bounds of the model.                                                    *)
(***************************************************************************)
MaxWindow == 3
MaxOrderbookUpdates == 3
MaxBars == 4
MaxFills == 2
MaxEwmaUpdates == 3

(***************************************************************************)
(* Fixed-point resolutions and f64 constants.                              *)
(***************************************************************************)
QuoteScale == 40000
VolScale == 100
LnScale == 10000
QtyScale == 1000
GammaScale == 10
BpsDenom == 10000
LN_2 == 6931
NaN == -2000000000

DEFAULT_VOLATILITY == VolScale \div 100

IsNaN(x) == x = NaN
Abs(x) == IF x < 0 THEN -x ELSE x
Min(a, b) == IF a < b THEN a ELSE b

\* f64 comparisons: every comparison with NaN is false
FGt(a, b) == ~IsNaN(a) /\ ~IsNaN(b) /\ a > b
FGe(a, b) == ~IsNaN(a) /\ ~IsNaN(b) /\ a >= b
FLe(a, b) == ~IsNaN(a) /\ ~IsNaN(b) /\ a =< b

(***************************************************************************)
(* f64::sqrt on a non-negative fixed-point value: integer square root      *)
(* (rounded down) by Newton iteration.                                     *)
(***************************************************************************)
RECURSIVE SqrtIter(_, _)
SqrtIter(n, x) ==
    LET y == (x + n \div x) \div 2
    IN  IF y >= x THEN x ELSE SqrtIter(n, y)

Sqrt(n) == IF n <= 0 THEN 0 ELSE SqrtIter(n, n)

(***************************************************************************)
(* f64::ln of the ratio num/den (num, den > 0), in units of 1/LnScale:     *)
(* range reduction to [1, 2) by powers of two, then the series             *)
(* ln x = 2 (z + z^3/3 + z^5/5 + z^7/7), z = (x - 1)/(x + 1).              *)
(***************************************************************************)
RECURSIVE LnReduced(_, _, _)
LnReduced(num, den, k) ==
    IF num >= 2 * den THEN LnReduced(num, 2 * den, k + 1)
    ELSE IF num < den THEN LnReduced(2 * num, den, k - 1)
    ELSE LET z  == ((num - den) * LnScale) \div (num + den)
             z2 == (z * z) \div LnScale
             z3 == (z * z2) \div LnScale
             z5 == (z3 * z2) \div LnScale
             z7 == (z5 * z2) \div LnScale
         IN  k * LN_2 + 2 * (z + z3 \div 3 + z5 \div 5 + z7 \div 7)

Ln(num, den) == LnReduced(num, den, 0)

(***************************************************************************)
(* Inputs.                                                                 *)
(***************************************************************************)
OrderSide == {"Buy", "Sell", "NoOrderSide"}

\* ASConfig::default(), with the window of the model
DefaultConfig ==
    [ instrument_id            |-> "BTCUSDT.BINANCE",
      risk_aversion            |-> 1,
      order_arrival_rate       |-> 100,
      price_sensitivity        |-> 15,
      time_horizon             |-> 300,
      base_order_size          |-> 1,
      max_position_size        |-> 100,
      max_inventory            |-> 50,
      volatility_window        |-> MaxWindow,
      use_parkinson            |-> TRUE,
      inventory_penalty_factor |-> 2,
      max_spread_bps           |-> 200,
      min_spread_bps           |-> 2 ]

\* variant: a zero risk aversion passes
validate_accepts_zero_risk_aversion(c) ==
    /\ ~(c.risk_aversion < 0)
    /\ ~(c.base_order_size <= 0)
    /\ ~(c.max_spread_bps <= c.min_spread_bps)
    /\ ~(c.volatility_window = 0)

\* StrategyConfig::validate, TRUE for Ok(())
validate(c) ==
    /\ ~(c.risk_aversion <= 0)
    /\ ~(c.base_order_size <= 0)
    /\ ~(c.max_spread_bps <= c.min_spread_bps)
    /\ ~(c.volatility_window = 0)

\* the configurations the engine is constructed with
Configs ==
    { c \in { DefaultConfig,
              [DefaultConfig EXCEPT !.use_parkinson = FALSE,
                                    !.volatility_window = MaxWindow - 1,
                                    !.max_inventory = 60,
                                    !.min_spread_bps = 300,
                                    !.max_spread_bps = 500] } : validate(c) }

\* the configurations handed to validate and to the constructors
CandidateConfigs ==
    { [DefaultConfig EXCEPT !.risk_aversion = ra,
                            !.base_order_size = bos,
                            !.min_spread_bps = lo,
                            !.volatility_window = w] :
        ra \in {-1, 0, 1}, bos \in {-1, 0, 1}, lo \in {2, 200, 300},
        w \in {0, 1, MaxWindow} }

TimestampsNs == {1000000000}

\* (best_bid, best_ask) of the snapshots fed to the engine
BookPrices == { <<0, 0>>, <<99, 101>>, <<109, 111>>, <<-2, 0>> }

OrderBookSnapshots ==
    { [best_bid |-> bp[1], best_ask |-> bp[2], bid_volume |-> 1,
       ask_volume |-> 1, timestamp_ns |-> ts] :
         bp \in BookPrices, ts \in TimestampsNs }

\* (high, low) of the bars fed to the engine
BarRanges == { <<200, 100>>, <<0, 0>> }

Bars ==
    { [open |-> hl[2], high |-> hl[1], low |-> hl[2], close |-> hl[1],
       volume |-> 1, timestamp_ns |-> ts] :
         hl \in BarRanges, ts \in TimestampsNs }

FillQuantities == {10, 70}

(***************************************************************************)
(* State of one AvellanedaStoikov instance.                                *)
(***************************************************************************)
VARIABLES
    config,                 \* ASConfig, fixed at construction
    mid_price,
    volatility,
    inventory,
    price_history,          \* VecDeque<f64>, front first
    high_low_history,       \* VecDeque<(f64, f64)>, front first
    quote_updates,
    orderbook_updates,
    inventory_adjustments,
    last_update_ns,
    panicked,               \* a call has panicked; the instance is gone
    last_op,                \* the operation called last
    ret,                    \* Option<QuoteUpdate> returned by the last call
    warned,                 \* the last call emitted the inventory warning
    mid_log,                \* history: mid-prices pushed since construction/reset
    bar_log,                \* history: (high, low) pairs pushed since then
    buy_sum,                \* history: total bought since construction/reset
    sell_sum,               \* history: total sold since construction/reset
    candidate,              \* the configuration at the configuration stage
    validation,             \* outcome of validate on it: "unchecked", "Ok", "Err"
    ewma,                   \* an EWMAVolatility: alpha, variance, initialized
    ewma_out,               \* Option of the value its last update returned
    ewma_log,               \* history: the returns passed to update
    scenario,               \* Option of the price ramp fed to the history
    std_out,                \* Option of the last standard-volatility query
    is_trading,             \* NautilusAvellanedaStoikov.is_trading
    current_quote,          \* NautilusAvellanedaStoikov.current_quote
    host_calls,             \* host calls the last adapter handler issued
    adapter_ret,            \* what it returned: "none", "Ok", "Err", "panic"
    adapter_op              \* the adapter handler called last

engine == << mid_price, volatility, inventory, price_history,
             high_low_history, quote_updates, orderbook_updates,
             inventory_adjustments, last_update_ns >>

vars == << config, mid_price, volatility, inventory, price_history,
           high_low_history, quote_updates, orderbook_updates,
           inventory_adjustments, last_update_ns, panicked, last_op, ret,
           warned, mid_log, bar_log, buy_sum, sell_sum, candidate,
           validation, ewma, ewma_out, ewma_log, scenario, std_out,
           is_trading, current_quote, host_calls, adapter_ret, adapter_op >>

\* what the engine's operations never touch
indicator == << ewma, ewma_out, ewma_log >>
aux == << candidate, validation, ewma, ewma_out, ewma_log, scenario, std_out >>

\* the adapter around the engine
adapter == << is_trading, current_quote, host_calls, adapter_ret, adapter_op >>

None == << >>
Some(v) == << v >>

\* no adapter has been built around the engine
NoAdapter ==
    /\ is_trading = FALSE
    /\ current_quote = None
    /\ host_calls = << >>
    /\ adapter_ret = "none"
    /\ adapter_op = "none"

(***************************************************************************)
(* Rolling histories.                                                      *)
(***************************************************************************)
\* variant: the push without the eviction
update_price_history_no_eviction(history, price, window) ==
    Append(history, price)

\* update_price_history: push_back, then pop_front when over the window
update_price_history(history, price, window) ==
    LET pushed == Append(history, price)
    IN  IF Len(pushed) > window THEN Tail(pushed) ELSE pushed

\* variant: the newest pair is dropped instead of the oldest
push_high_low_drop_newest(history, bar, window) ==
    LET pushed == Append(history, << bar.high, bar.low >>)
    IN  IF Len(pushed) > window THEN SubSeq(pushed, 1, window) ELSE pushed

\* on_bar, first half: push_back of (high, low), then pop_front when over
push_high_low(history, bar, window) ==
    LET pushed == Append(history, << bar.high, bar.low >>)
    IN  IF Len(pushed) > window THEN Tail(pushed) ELSE pushed

(***************************************************************************)
(* Volatility estimators.                                                  *)
(***************************************************************************)
\* the loop of calculate_parkinson_volatility: sum of ln(high/low)^2 over
\* the pairs with high > 0 and low > 0, in units of 1/LnScale^2
RECURSIVE parkinson_sum_sq(_)
parkinson_sum_sq(hl) ==
    IF hl = << >> THEN 0
    ELSE LET high == Head(hl)[1]
             low  == Head(hl)[2]
             rest == parkinson_sum_sq(Tail(hl))
         IN  IF high > 0 /\ low > 0
             THEN LET ratio == Ln(high, low) IN rest + ratio * ratio
             ELSE rest

\* the divisor n of calculate_parkinson_volatility
parkinson_n(hl) == Len(hl)

calculate_parkinson_volatility(hl) ==
    IF Len(hl) < 2 THEN DEFAULT_VOLATILITY
    ELSE LET sum_sq == parkinson_sum_sq(hl)
             n      == parkinson_n(hl)
         IN  Sqrt((sum_sq * ((VolScale * VolScale) \div LnScale))
                    \div (n * 4 * LN_2))

\* mid-prices are whole multiples of half a price unit
MidUnit == QuoteScale \div 2

\* (p2 / p1).ln(): finite only for a positive ratio; a zero or negative
\* ratio gives -inf, +inf or NaN, which the variance turns into NaN
LogReturn(p1, p2) ==
    IF (p1 > 0 /\ p2 > 0) \/ (p1 < 0 /\ p2 < 0)
    THEN Ln(Abs(p2) \div MidUnit, Abs(p1) \div MidUnit)
    ELSE NaN

RECURSIVE SumSeq(_)
SumSeq(s) == IF s = << >> THEN 0 ELSE Head(s) + SumSeq(Tail(s))

\* the body of calculate_standard_volatility at a given resolution: returns
\* are the (p2 / p1).ln() of consecutive prices in some unit u, the result is
\* in unit u * rescale, and default is 0.01 in that unit
standard_volatility(prices, returns, rescale, default) ==
    IF Len(prices) < 2 THEN default
    ELSE IF returns = << >> THEN default
    ELSE IF \E i \in DOMAIN returns : IsNaN(returns[i]) THEN NaN
    ELSE LET mean == SumSeq(returns) \div Len(returns)
             variance ==
                 SumSeq([ i \in DOMAIN returns |->
                            (returns[i] - mean) * (returns[i] - mean) ])
                    \div Len(returns)
         IN  Sqrt(variance \div (rescale * rescale))

\* calculate_standard_volatility as on_bar uses it, in 1/VolScale
calculate_standard_volatility(prices) ==
    standard_volatility(prices,
                        [ i \in 1..(Len(prices) - 1) |->
                            LogReturn(prices[i], prices[i + 1]) ],
                        LnScale \div VolScale, DEFAULT_VOLATILITY)

(***************************************************************************)
(* The same estimator at a resolution of 1/FineScale, for price series     *)
(* whose consecutive ratios are within a few percent of 1: the returns of  *)
(* such a series differ from one another far below 1/LnScale.              *)
(***************************************************************************)
FineScale == 1000000000

RECURSIVE Pow10(_)
Pow10(k) == IF k = 0 THEN 1 ELSE 10 * Pow10(k - 1)

\* floor(a * 10^k / b) for 0 <= a, 0 < b, by long division
RECURSIVE DivScaled(_, _, _)
DivScaled(a, b, k) ==
    IF k = 0 THEN a \div b
    ELSE (a \div b) * Pow10(k) + DivScaled((a % b) * 10, b, k - 1)

\* f64::ln of num/den in 1/FineScale: ln x = 2 (z + z^3/3),
\* z = (x - 1)/(x + 1); the later terms are below the resolution
LnFine(num, den) ==
    LET magnitude == DivScaled(Abs(num - den), num + den, 9)
        z  == IF num >= den THEN magnitude ELSE 0 - magnitude
        zs == z \div 1000
        z2 == (zs * zs) \div 1000
        z3 == (z2 * zs) \div 1000000
    IN  2 * (z + z3 \div 3)

LogReturnFine(p1, p2) ==
    IF (p1 > 0 /\ p2 > 0) \/ (p1 < 0 /\ p2 < 0)
    THEN LnFine(Abs(p2) \div MidUnit, Abs(p1) \div MidUnit)
    ELSE NaN

\* calculate_standard_volatility in 1/FineScale
calculate_standard_volatility_fine(prices) ==
    standard_volatility(prices,
                        [ i \in 1..(Len(prices) - 1) |->
                            LogReturnFine(prices[i], prices[i + 1]) ],
                        1, FineScale \div 100)

(***************************************************************************)
(* calculate_quotes.  Spreads are kept whole multiples of 2/QuoteScale so  *)
(* that halving is exact, as multiplying by 0.5 is in binary floating      *)
(* point.                                                                  *)
(***************************************************************************)
min_spread_of(c, mid) == (mid \div BpsDenom) * c.min_spread_bps
max_spread_of(c, mid) == (mid \div BpsDenom) * c.max_spread_bps

\* f64::clamp asserts min <= max
clamp_panics(min, max) == ~(min <= max)

clamp(x, min, max) ==
    IF IsNaN(x) THEN NaN
    ELSE IF x < min THEN min
    ELSE IF x > max THEN max
    ELSE x

\* q * gamma * sigma^2 * T, in quote units
reservation_skew(c, sigma, q) ==
    IF IsNaN(sigma) THEN NaN
    ELSE (q * c.risk_aversion * sigma * sigma * c.time_horizon)
            \div ((QtyScale * GammaScale * VolScale * VolScale) \div QuoteScale)

\* gamma * sigma^2 * T + (2 / gamma) * ln(1 + gamma / kappa), before clamping
optimal_spread_raw(c, sigma) ==
    IF IsNaN(sigma) THEN NaN
    ELSE LET gamma == c.risk_aversion
             kappa == c.price_sensitivity
             spread_base ==
                 2 * ((gamma * sigma * sigma * c.time_horizon)
                        \div ((GammaScale * VolScale * VolScale)
                                \div (QuoteScale \div 2)))
             spread_adjustment ==
                 2 * ((GammaScale * Ln(kappa + gamma, kappa)
                         * (QuoteScale \div LnScale)) \div gamma)
         IN  spread_base + spread_adjustment

\* variant: the penalty with its sign reversed
inventory_penalty_of_negated(c, sigma, q) ==
    IF IsNaN(sigma) THEN NaN
    ELSE 0 - ((q * c.inventory_penalty_factor * sigma * QuoteScale)
                \div (QtyScale * VolScale))

\* q * inventory_penalty_factor * sigma, in quote units
inventory_penalty_of(c, sigma, q) ==
    IF IsNaN(sigma) THEN NaN
    ELSE (q * c.inventory_penalty_factor * sigma * QuoteScale)
            \div (QtyScale * VolScale)

\* variant: the inventory ratio is not capped at 1
order_size_of_uncapped(c, q) ==
    LET size_adjustment == 1000 - ((Abs(q) * 1000) \div c.max_inventory)
    IN  c.base_order_size * size_adjustment

\* base_order_size * (1 - min(|q| / max_inventory, 1)), in 1/(QtyScale*1000)
order_size_of(c, q) ==
    LET size_adjustment == 1000 - Min((Abs(q) * 1000) \div c.max_inventory, 1000)
    IN  c.base_order_size * size_adjustment

calculate_quotes_panics(c, mid) ==
    clamp_panics(min_spread_of(c, mid), max_spread_of(c, mid))

\* variant: the spread widens with the size of the position
calculate_quotes_spread_of_inventory(c, mid, sigma, q) ==
    LET skew == reservation_skew(c, sigma, q)
        reservation_price == IF IsNaN(skew) THEN NaN ELSE mid - skew
        raw == optimal_spread_raw(c, sigma)
        optimal_spread == clamp(IF IsNaN(raw) THEN NaN ELSE raw + 2 * Abs(q),
                                min_spread_of(c, mid), max_spread_of(c, mid))
        half_spread == IF IsNaN(optimal_spread) THEN NaN
                       ELSE optimal_spread \div 2
        inventory_penalty == inventory_penalty_of(c, sigma, q)
        nan == IsNaN(reservation_price) \/ IsNaN(half_spread)
                  \/ IsNaN(inventory_penalty)
        order_size == order_size_of(c, q)
    IN  [ bid_price |-> IF nan THEN NaN
                        ELSE reservation_price - half_spread - inventory_penalty,
          ask_price |-> IF nan THEN NaN
                        ELSE reservation_price + half_spread - inventory_penalty,
          bid_size  |-> order_size,
          ask_size  |-> order_size,
          spread    |-> optimal_spread,
          reservation_price |-> reservation_price ]

calculate_quotes(c, mid, sigma, q) ==
    LET skew == reservation_skew(c, sigma, q)
        reservation_price == IF IsNaN(skew) THEN NaN ELSE mid - skew
        optimal_spread == clamp(optimal_spread_raw(c, sigma),
                                min_spread_of(c, mid), max_spread_of(c, mid))
        half_spread == IF IsNaN(optimal_spread) THEN NaN
                       ELSE optimal_spread \div 2
        inventory_penalty == inventory_penalty_of(c, sigma, q)
        nan == IsNaN(reservation_price) \/ IsNaN(half_spread)
                  \/ IsNaN(inventory_penalty)
        order_size == order_size_of(c, q)
    IN  [ bid_price |-> IF nan THEN NaN
                        ELSE reservation_price - half_spread - inventory_penalty,
          ask_price |-> IF nan THEN NaN
                        ELSE reservation_price + half_spread - inventory_penalty,
          bid_size  |-> order_size,
          ask_size  |-> order_size,
          spread    |-> optimal_spread,
          reservation_price |-> reservation_price ]

(***************************************************************************)
(* Inventory.                                                              *)
(***************************************************************************)
\* variant: the position is clamped to the inventory limit
apply_fill_clamped(inv, side, quantity, max_inventory) ==
    LET raw == IF side = "Buy" THEN inv + quantity ELSE inv - quantity
    IN  IF raw > max_inventory THEN max_inventory
        ELSE IF raw < -max_inventory THEN -max_inventory
        ELSE raw

\* the match of on_fill (Buy and Sell arms)
apply_fill(inv, side, quantity, max_inventory) ==
    IF side = "Buy" THEN inv + quantity ELSE inv - quantity

\* variant: the warning also fires at the limit itself
exceeds_limit_inclusive(inv, max_inventory) == Abs(inv) >= max_inventory

\* the soft-limit check of on_fill
exceeds_limit(inv, max_inventory) == Abs(inv) > max_inventory

\* get_stats
get_stats ==
    [ quote_updates         |-> quote_updates,
      orderbook_updates     |-> orderbook_updates,
      inventory_adjustments |-> inventory_adjustments,
      current_inventory     |-> inventory,
      current_volatility    |-> volatility,
      mid_price             |-> mid_price ]

(***************************************************************************)
(* Operations.                                                             *)
(***************************************************************************)
\* AvellanedaStoikov::new
Init ==
    /\ config \in Configs
    /\ mid_price = 0
    /\ volatility = DEFAULT_VOLATILITY
    /\ inventory = 0
    /\ price_history = << >>
    /\ high_low_history = << >>
    /\ quote_updates = 0
    /\ orderbook_updates = 0
    /\ inventory_adjustments = 0
    /\ last_update_ns = 0
    /\ panicked = FALSE
    /\ last_op = "new"
    /\ ret = None
    /\ warned = FALSE
    /\ mid_log = << >>
    /\ bar_log = << >>
    /\ buy_sum = 0
    /\ sell_sum = 0
    /\ candidate = config
    /\ validation = "unchecked"
    /\ ewma = [alpha |-> 0, variance |-> 0, initialized |-> FALSE]
    /\ ewma_out = None
    /\ ewma_log = << >>
    /\ scenario = None
    /\ std_out = None
    /\ NoAdapter

\* variant: in standard mode the order-book path re-estimates the volatility
on_orderbook_update_estimates(snapshot) ==
    LET new_mid == (snapshot.best_bid + snapshot.best_ask) * (QuoteScale \div 2)
        pushed == update_price_history(price_history, new_mid,
                                       config.volatility_window)
        sigma == IF config.use_parkinson THEN volatility
                 ELSE calculate_standard_volatility(pushed)
    IN  /\ ~panicked
        /\ orderbook_updates < MaxOrderbookUpdates
        /\ orderbook_updates' = orderbook_updates + 1
        /\ last_update_ns' = snapshot.timestamp_ns
        /\ mid_price' = new_mid
        /\ price_history' = pushed
        /\ mid_log' = Append(mid_log, new_mid)
        /\ quote_updates' = quote_updates + 1
        /\ volatility' = sigma
        /\ IF calculate_quotes_panics(config, new_mid)
           THEN /\ panicked' = TRUE
                /\ ret' = None
           ELSE /\ panicked' = FALSE
                /\ ret' = Some(calculate_quotes(config, new_mid, sigma,
                                                inventory))
        /\ last_op' = "on_orderbook_update"
        /\ warned' = FALSE
        /\ UNCHANGED << config, inventory, high_low_history,
                        inventory_adjustments, bar_log, buy_sum, sell_sum >>
        /\ UNCHANGED aux

\* on_orderbook_update, with calculate_quotes inlined where it panics
on_orderbook_update(snapshot) ==
    LET new_mid == (snapshot.best_bid + snapshot.best_ask) * (QuoteScale \div 2)
    IN  /\ ~panicked
        /\ orderbook_updates < MaxOrderbookUpdates
        /\ orderbook_updates' = orderbook_updates + 1
        /\ last_update_ns' = snapshot.timestamp_ns
        /\ mid_price' = new_mid
        /\ price_history' =
             update_price_history(price_history, new_mid, config.volatility_window)
        /\ mid_log' = Append(mid_log, new_mid)
        /\ quote_updates' = quote_updates + 1
        /\ IF calculate_quotes_panics(config, new_mid)
           THEN /\ panicked' = TRUE
                /\ ret' = None
           ELSE /\ panicked' = FALSE
                /\ ret' = Some(calculate_quotes(config, new_mid, volatility,
                                                inventory))
        /\ last_op' = "on_orderbook_update"
        /\ warned' = FALSE
        /\ UNCHANGED << config, volatility, inventory, high_low_history,
                        inventory_adjustments, bar_log, buy_sum, sell_sum >>
        /\ UNCHANGED aux

\* variant: the bar path also counts a quote update
on_bar_counts_quote(bar) ==
    LET pushed == push_high_low(high_low_history, bar, config.volatility_window)
    IN  /\ ~panicked
        /\ Len(bar_log) < MaxBars
        /\ high_low_history' = pushed
        /\ bar_log' = Append(bar_log, << bar.high, bar.low >>)
        /\ volatility' = IF config.use_parkinson
                         THEN calculate_parkinson_volatility(pushed)
                         ELSE calculate_standard_volatility(price_history)
        /\ quote_updates' = quote_updates + 1
        /\ last_op' = "on_bar"
        /\ ret' = None
        /\ warned' = FALSE
        /\ UNCHANGED << config, mid_price, inventory, price_history,
                        orderbook_updates, inventory_adjustments,
                        last_update_ns, panicked, mid_log, buy_sum, sell_sum >>
        /\ UNCHANGED aux

on_bar(bar) ==
    LET pushed == push_high_low(high_low_history, bar, config.volatility_window)
    IN  /\ ~panicked
        /\ Len(bar_log) < MaxBars
        /\ high_low_history' = pushed
        /\ bar_log' = Append(bar_log, << bar.high, bar.low >>)
        /\ volatility' = IF config.use_parkinson
                         THEN calculate_parkinson_volatility(pushed)
                         ELSE calculate_standard_volatility(price_history)
        /\ last_op' = "on_bar"
        /\ ret' = None
        /\ warned' = FALSE
        /\ UNCHANGED << config, mid_price, inventory, price_history,
                        quote_updates, orderbook_updates,
                        inventory_adjustments, last_update_ns, panicked,
                        mid_log, buy_sum, sell_sum >>
        /\ UNCHANGED aux

\* variant: a fill also stamps the last-update time
on_fill_stamps_time(side, quantity) ==
    /\ ~panicked
    /\ inventory_adjustments < MaxFills
    /\ inventory_adjustments' = inventory_adjustments + 1
    /\ last_op' = "on_fill"
    /\ ret' = None
    /\ last_update_ns' = 1
    /\ IF side = "NoOrderSide"
       THEN /\ panicked' = TRUE
            /\ warned' = FALSE
            /\ UNCHANGED << inventory, buy_sum, sell_sum >>
       ELSE /\ panicked' = FALSE
            /\ inventory' = apply_fill(inventory, side, quantity,
                                       config.max_inventory)
            /\ warned' = exceeds_limit(inventory', config.max_inventory)
            /\ buy_sum' = IF side = "Buy" THEN buy_sum + quantity ELSE buy_sum
            /\ sell_sum' = IF side = "Sell" THEN sell_sum + quantity
                           ELSE sell_sum
    /\ UNCHANGED << config, mid_price, volatility, price_history,
                    high_low_history, quote_updates, orderbook_updates,
                    mid_log, bar_log >>
    /\ UNCHANGED aux

on_fill(side, quantity) ==
    /\ ~panicked
    /\ inventory_adjustments < MaxFills
    /\ inventory_adjustments' = inventory_adjustments + 1
    /\ last_op' = "on_fill"
    /\ ret' = None
    /\ IF side = "NoOrderSide"
       THEN \* todo!()
            /\ panicked' = TRUE
            /\ warned' = FALSE
            /\ UNCHANGED << inventory, buy_sum, sell_sum >>
       ELSE /\ panicked' = FALSE
            /\ inventory' = apply_fill(inventory, side, quantity,
                                       config.max_inventory)
            /\ warned' = exceeds_limit(inventory', config.max_inventory)
            /\ buy_sum' = IF side = "Buy" THEN buy_sum + quantity ELSE buy_sum
            /\ sell_sum' = IF side = "Sell" THEN sell_sum + quantity
                           ELSE sell_sum
    /\ UNCHANGED << config, mid_price, volatility, price_history,
                    high_low_history, quote_updates, orderbook_updates,
                    last_update_ns, mid_log, bar_log >>
        /\ UNCHANGED aux

\* variant: the volatility estimate survives the reset
reset_keeps_volatility ==
    /\ ~panicked
    /\ mid_price' = 0
    /\ inventory' = 0
    /\ price_history' = << >>
    /\ high_low_history' = << >>
    /\ quote_updates' = 0
    /\ orderbook_updates' = 0
    /\ inventory_adjustments' = 0
    /\ last_update_ns' = 0
    /\ last_op' = "reset"
    /\ ret' = None
    /\ warned' = FALSE
    /\ mid_log' = << >>
    /\ bar_log' = << >>
    /\ buy_sum' = 0
    /\ sell_sum' = 0
    /\ UNCHANGED << config, panicked, volatility >>
    /\ UNCHANGED aux

\* variant: the position survives the reset
reset_keeps_inventory ==
    /\ ~panicked
    /\ mid_price' = 0
    /\ volatility' = DEFAULT_VOLATILITY
    /\ price_history' = << >>
    /\ high_low_history' = << >>
    /\ quote_updates' = 0
    /\ orderbook_updates' = 0
    /\ inventory_adjustments' = 0
    /\ last_update_ns' = 0
    /\ last_op' = "reset"
    /\ ret' = None
    /\ warned' = FALSE
    /\ mid_log' = << >>
    /\ bar_log' = << >>
    /\ buy_sum' = 0
    /\ sell_sum' = 0
    /\ UNCHANGED << config, panicked, inventory >>
    /\ UNCHANGED aux

reset ==
    /\ ~panicked
    /\ mid_price' = 0
    /\ volatility' = DEFAULT_VOLATILITY
    /\ inventory' = 0
    /\ price_history' = << >>
    /\ high_low_history' = << >>
    /\ quote_updates' = 0
    /\ orderbook_updates' = 0
    /\ inventory_adjustments' = 0
    /\ last_update_ns' = 0
    /\ last_op' = "reset"
    /\ ret' = None
    /\ warned' = FALSE
    /\ mid_log' = << >>
    /\ bar_log' = << >>
    /\ buy_sum' = 0
    /\ sell_sum' = 0
    /\ UNCHANGED << config, panicked >>
    /\ UNCHANGED aux

OrderbookUpdate ==
    /\ \E snapshot \in OrderBookSnapshots : on_orderbook_update(snapshot)
    /\ UNCHANGED adapter
BarUpdate ==
    /\ \E bar \in Bars : on_bar(bar)
    /\ UNCHANGED adapter
Fill ==
    /\ \E side \in OrderSide, quantity \in FillQuantities : on_fill(side, quantity)
    /\ UNCHANGED adapter
Reset ==
    /\ reset
    /\ UNCHANGED adapter

Next == OrderbookUpdate \/ BarUpdate \/ Fill \/ Reset

Spec == Init /\ [][Next]_vars

(***************************************************************************)
(* The configuration stage: a configuration is written, may be handed to   *)
(* validate, and may be handed to a constructor.  No constructor calls     *)
(* validate or looks at its outcome.                                       *)
(***************************************************************************)
ConfigInit ==
    /\ candidate \in CandidateConfigs
    /\ validation = "unchecked"
    /\ config = DefaultConfig
    /\ mid_price = 0
    /\ volatility = DEFAULT_VOLATILITY
    /\ inventory = 0
    /\ price_history = << >>
    /\ high_low_history = << >>
    /\ quote_updates = 0
    /\ orderbook_updates = 0
    /\ inventory_adjustments = 0
    /\ last_update_ns = 0
    /\ panicked = FALSE
    /\ last_op = "configure"
    /\ ret = None
    /\ warned = FALSE
    /\ mid_log = << >>
    /\ bar_log = << >>
    /\ buy_sum = 0
    /\ sell_sum = 0
    /\ ewma = [alpha |-> 0, variance |-> 0, initialized |-> FALSE]
    /\ ewma_out = None
    /\ ewma_log = << >>
    /\ scenario = None
    /\ std_out = None
    /\ NoAdapter

\* a caller runs StrategyConfig::validate on the configuration
Validate ==
    /\ last_op = "configure"
    /\ validation = "unchecked"
    /\ validation' = IF validate(candidate) THEN "Ok" ELSE "Err"
    /\ UNCHANGED << config, engine, panicked, last_op, ret, warned, mid_log,
                    bar_log, buy_sum, sell_sum, candidate, indicator,
                    scenario, std_out, adapter >>

\* AvellanedaStoikov::new, reached directly or through
\* NautilusAvellanedaStoikov::new, from_base_config and
\* create_strategy_with_config
new ==
    /\ last_op = "configure"
    /\ config' = candidate
    /\ mid_price' = 0
    /\ volatility' = DEFAULT_VOLATILITY
    /\ inventory' = 0
    /\ price_history' = << >>
    /\ high_low_history' = << >>
    /\ quote_updates' = 0
    /\ orderbook_updates' = 0
    /\ inventory_adjustments' = 0
    /\ last_update_ns' = 0
    /\ last_op' = "new"
    /\ UNCHANGED << panicked, ret, warned, mid_log, bar_log, buy_sum,
                    sell_sum, adapter >>
    /\ UNCHANGED aux

ConfigNext == Validate \/ new

ConfigSpec == ConfigInit /\ [][ConfigNext]_vars

(***************************************************************************)
(* EWMAVolatility, the standalone streaming estimator.  alpha is in        *)
(* 1/AlphaScale, a return in 1/ReturnScale, the variance in                *)
(* 1/ReturnScale^2 and the volatility it returns in 1/ReturnScale.         *)
(***************************************************************************)
AlphaScale == 100
ReturnScale == 1000

\* smoothing factors, 0.94 being the one of test_ewma_volatility
EwmaAlphas == {94, 50}

\* the returns of test_ewma_volatility
EwmaReturns == {10, -15, 8, -12, 20}

EWMAVolatility_new(alpha) ==
    [alpha |-> alpha, variance |-> 0, initialized |-> FALSE]

not_indicator == << config, mid_price, volatility, inventory, price_history,
                    high_low_history, quote_updates, orderbook_updates,
                    inventory_adjustments, last_update_ns, panicked, last_op,
                    ret, warned, mid_log, bar_log, buy_sum, sell_sum,
                    candidate, validation, scenario, std_out, is_trading,
                    current_quote, host_calls, adapter_ret, adapter_op >>

EwmaInit ==
    /\ \E alpha \in EwmaAlphas : ewma = EWMAVolatility_new(alpha)
    /\ ewma_out = None
    /\ ewma_log = << >>
    /\ config = DefaultConfig
    /\ mid_price = 0
    /\ volatility = DEFAULT_VOLATILITY
    /\ inventory = 0
    /\ price_history = << >>
    /\ high_low_history = << >>
    /\ quote_updates = 0
    /\ orderbook_updates = 0
    /\ inventory_adjustments = 0
    /\ last_update_ns = 0
    /\ panicked = FALSE
    /\ last_op = "EWMAVolatility::new"
    /\ ret = None
    /\ warned = FALSE
    /\ mid_log = << >>
    /\ bar_log = << >>
    /\ buy_sum = 0
    /\ sell_sum = 0
    /\ candidate = DefaultConfig
    /\ validation = "unchecked"
    /\ scenario = None
    /\ std_out = None
    /\ NoAdapter

\* variant: the weights of the new and the old term are exchanged
update_weights_exchanged(return_value) ==
    /\ Len(ewma_log) < MaxEwmaUpdates
    /\ ewma' =
         IF ~ewma.initialized
         THEN [ewma EXCEPT !.variance = return_value * return_value,
                           !.initialized = TRUE]
         ELSE [ewma EXCEPT !.variance =
                   ((AlphaScale - ewma.alpha) * return_value * return_value
                      + ewma.alpha * ewma.variance) \div AlphaScale]
    /\ ewma_out' = Some(Sqrt(ewma'.variance))
    /\ ewma_log' = Append(ewma_log, return_value)
    /\ UNCHANGED not_indicator

\* EWMAVolatility::update
update(return_value) ==
    /\ Len(ewma_log) < MaxEwmaUpdates
    /\ ewma' =
         IF ~ewma.initialized
         THEN [ewma EXCEPT !.variance = return_value * return_value,
                           !.initialized = TRUE]
         ELSE [ewma EXCEPT !.variance =
                   (ewma.alpha * return_value * return_value
                      + (AlphaScale - ewma.alpha) * ewma.variance)
                     \div AlphaScale]
    /\ ewma_out' = Some(Sqrt(ewma'.variance))
    /\ ewma_log' = Append(ewma_log, return_value)
    /\ UNCHANGED not_indicator

EwmaNext == \E return_value \in EwmaReturns : update(return_value)

EwmaSpec == EwmaInit /\ [][EwmaNext]_vars

(***************************************************************************)
(* The standard estimator driven as test_volatility_calculation drives it: *)
(* an engine with a window of 20 is fed a ramp of prices through           *)
(* update_price_history and calculate_standard_volatility is called on it. *)
(***************************************************************************)
TestWindow == 20
TestPushes == 30

\* create_test_config
TestConfig == [DefaultConfig EXCEPT !.instrument_id = "BTCUSDT",
                                    !.volatility_window = TestWindow]

\* price i of a ramp is start + i * step; 50000 and +10 are the test's
PriceRamps ==
    { [start |-> a, step |-> b] : a \in {50000, 40000}, b \in {10, 20, 0, -10} }

StdVolInit ==
    /\ config = TestConfig
    /\ scenario \in { Some(ramp) : ramp \in PriceRamps }
    /\ std_out = None
    /\ NoAdapter
    /\ mid_price = 0
    /\ volatility = DEFAULT_VOLATILITY
    /\ inventory = 0
    /\ price_history = << >>
    /\ high_low_history = << >>
    /\ quote_updates = 0
    /\ orderbook_updates = 0
    /\ inventory_adjustments = 0
    /\ last_update_ns = 0
    /\ panicked = FALSE
    /\ last_op = "new"
    /\ ret = None
    /\ warned = FALSE
    /\ mid_log = << >>
    /\ bar_log = << >>
    /\ buy_sum = 0
    /\ sell_sum = 0
    /\ candidate = TestConfig
    /\ validation = "unchecked"
    /\ ewma = [alpha |-> 0, variance |-> 0, initialized |-> FALSE]
    /\ ewma_out = None
    /\ ewma_log = << >>

\* one turn of the test's loop: strategy.update_price_history(price)
PushPrice ==
    LET i == Len(mid_log)
        price == (scenario[1].start + i * scenario[1].step) * QuoteScale
    IN  /\ i < TestPushes
        /\ price_history' =
             update_price_history(price_history, price, config.volatility_window)
        /\ mid_log' = Append(mid_log, price)
        /\ std_out' = None
        /\ last_op' = "update_price_history"
        /\ UNCHANGED << config, mid_price, volatility, inventory,
                        high_low_history, quote_updates, orderbook_updates,
                        inventory_adjustments, last_update_ns, panicked, ret,
                        warned, bar_log, buy_sum, sell_sum, candidate,
                        validation, indicator, scenario, adapter >>

\* strategy.calculate_standard_volatility()
QueryStandardVolatility ==
    /\ std_out = None
    /\ std_out' = Some(calculate_standard_volatility_fine(price_history))
    /\ last_op' = "calculate_standard_volatility"
    /\ UNCHANGED << config, engine, panicked, ret, warned, mid_log, bar_log,
                    buy_sum, sell_sum, candidate, validation, indicator,
                    scenario, adapter >>

StdVolNext == PushPrice \/ QueryStandardVolatility

StdVolSpec == StdVolInit /\ [][StdVolNext]_vars

(***************************************************************************)
(* NautilusAvellanedaStoikov, the adapter that turns host events into      *)
(* engine calls and routes the quote into host order calls.  The host's    *)
(* own code (cancel_all_orders, the order factory, submit_order) is not    *)
(* part of the repository: each host call returns Ok or Err, chosen        *)
(* freely.  The adapter forwards no bars and never resets the engine.      *)
(***************************************************************************)
PRICE_PRECISION == 2
QUANTITY_PRECISION == 4

\* x / d rounded to the nearest integer, halves away from zero (f64::round)
RoundDiv(x, d) ==
    IF x >= 0 THEN (2 * x + d) \div (2 * d)
    ELSE 0 - ((d - 2 * x) \div (2 * d))

\* Price::new(value, PRICE_PRECISION): the price in units of 10^-2
Price_new(value) ==
    IF IsNaN(value) THEN NaN
    ELSE RoundDiv(value, QuoteScale \div Pow10(PRICE_PRECISION))

\* Quantity::new(value, QUANTITY_PRECISION): the size in units of 10^-4
Quantity_new(value) ==
    RoundDiv(value, (QtyScale * 1000) \div Pow10(QUANTITY_PRECISION))

\* which host call of update_orders fails: 0 for none, else its position
FailAt == 0..5

\* variant: a quote of size 0 is not routed beyond the cancel
update_orders_skips_empty(quote_option, fail_at) ==
    IF quote_option = None THEN [calls |-> << >>, result |-> "Ok"]
    ELSE LET quote == quote_option[1]
             routed ==
               << [call |-> "cancel_all_orders"],
                  [call |-> "create_limit_order", side |-> "Buy",
                   price |-> Price_new(quote.bid_price),
                   quantity |-> Quantity_new(quote.bid_size)],
                  [call |-> "create_limit_order", side |-> "Sell",
                   price |-> Price_new(quote.ask_price),
                   quantity |-> Quantity_new(quote.ask_size)],
                  [call |-> "submit_order", side |-> "Buy"],
                  [call |-> "submit_order", side |-> "Sell"] >>
             wanted == IF quote.bid_size = 0 THEN SubSeq(routed, 1, 1)
                       ELSE routed
         IN  IF fail_at = 0 \/ fail_at > Len(wanted)
             THEN [calls |-> wanted, result |-> "Ok"]
             ELSE [calls |-> SubSeq(wanted, 1, fail_at), result |-> "Err"]

\* update_orders: the host calls it issues, the failing one last, and what
\* it returns
update_orders(quote_option, fail_at) ==
    IF quote_option = None THEN [calls |-> << >>, result |-> "Ok"]
    ELSE LET quote == quote_option[1]
             routed ==
               << [call |-> "cancel_all_orders"],
                  [call |-> "create_limit_order", side |-> "Buy",
                   price |-> Price_new(quote.bid_price),
                   quantity |-> Quantity_new(quote.bid_size)],
                  [call |-> "create_limit_order", side |-> "Sell",
                   price |-> Price_new(quote.ask_price),
                   quantity |-> Quantity_new(quote.ask_size)],
                  [call |-> "submit_order", side |-> "Buy"],
                  [call |-> "submit_order", side |-> "Sell"] >>
         IN  IF fail_at = 0 THEN [calls |-> routed, result |-> "Ok"]
             ELSE [calls |-> SubSeq(routed, 1, fail_at), result |-> "Err"]

engine_side == << config, mid_price, volatility, inventory, price_history,
                 high_low_history, quote_updates, orderbook_updates,
                 inventory_adjustments, last_update_ns, panicked, last_op,
                 ret, warned, mid_log, bar_log, buy_sum, sell_sum >>

\* NautilusAvellanedaStoikov::new over AvellanedaStoikov::new
AdapterInit ==
    /\ config \in Configs
    /\ mid_price = 0
    /\ volatility = DEFAULT_VOLATILITY
    /\ inventory = 0
    /\ price_history = << >>
    /\ high_low_history = << >>
    /\ quote_updates = 0
    /\ orderbook_updates = 0
    /\ inventory_adjustments = 0
    /\ last_update_ns = 0
    /\ panicked = FALSE
    /\ last_op = "new"
    /\ ret = None
    /\ warned = FALSE
    /\ mid_log = << >>
    /\ bar_log = << >>
    /\ buy_sum = 0
    /\ sell_sum = 0
    /\ candidate = config
    /\ validation = "unchecked"
    /\ ewma = [alpha |-> 0, variance |-> 0, initialized |-> FALSE]
    /\ ewma_out = None
    /\ ewma_log = << >>
    /\ scenario = None
    /\ std_out = None
    /\ is_trading = FALSE
    /\ current_quote = None
    /\ host_calls = << >>
    /\ adapter_ret = "none"
    /\ adapter_op = "new"

on_start ==
    /\ ~panicked
    /\ is_trading' = TRUE
    /\ host_calls' = << >>
    /\ adapter_ret' = "Ok"
    /\ adapter_op' = "on_start"
    /\ UNCHANGED << current_quote, engine_side >>
    /\ UNCHANGED aux

on_stop(cancel_ok) ==
    /\ ~panicked
    /\ is_trading' = FALSE
    /\ host_calls' = << [call |-> "cancel_all_orders"] >>
    /\ adapter_ret' = IF cancel_ok THEN "Ok" ELSE "Err"
    /\ adapter_op' = "on_stop"
    /\ UNCHANGED << current_quote, engine_side >>
    /\ UNCHANGED aux

\* variant: order books are processed whatever the trading flag says
on_book_ignores_flag(snapshot, fail_at) ==
    /\ ~panicked
    /\ adapter_op' = "on_book"
    /\ UNCHANGED is_trading
    /\ on_orderbook_update(snapshot)
    /\ IF panicked'
       THEN /\ host_calls' = << >>
            /\ adapter_ret' = "panic"
            /\ UNCHANGED current_quote
       ELSE LET routing == update_orders(ret', fail_at)
            IN  /\ current_quote' = ret'
                /\ host_calls' = routing.calls
                /\ adapter_ret' = routing.result

on_book(snapshot, fail_at) ==
    /\ ~panicked
    /\ adapter_op' = "on_book"
    /\ UNCHANGED is_trading
    /\ IF ~is_trading
       THEN /\ host_calls' = << >>
            /\ adapter_ret' = "Ok"
            /\ UNCHANGED << current_quote, engine_side >>
            /\ UNCHANGED aux
       ELSE /\ on_orderbook_update(snapshot)
            /\ IF panicked'
               THEN \* the panic unwinds through on_book
                    /\ host_calls' = << >>
                    /\ adapter_ret' = "panic"
                    /\ UNCHANGED current_quote
               ELSE LET routing == update_orders(ret', fail_at)
                    IN  /\ current_quote' = ret'
                        /\ host_calls' = routing.calls
                        /\ adapter_ret' = routing.result

\* variant: every fill event is forwarded to the engine
on_order_filled_forwards_all(side, quantity) ==
    /\ ~panicked
    /\ adapter_op' = "on_order_filled"
    /\ host_calls' = << >>
    /\ adapter_ret' = IF side = "NoOrderSide" THEN "panic" ELSE "Ok"
    /\ UNCHANGED << is_trading, current_quote >>
    /\ on_fill(side, quantity)

\* variant: fills are dropped while the adapter is not trading
on_order_filled_while_trading(side, quantity) ==
    /\ ~panicked
    /\ adapter_op' = "on_order_filled"
    /\ host_calls' = << >>
    /\ adapter_ret' = "Ok"
    /\ UNCHANGED << is_trading, current_quote >>
    /\ IF side = "NoOrderSide" \/ ~is_trading
       THEN /\ UNCHANGED engine_side
            /\ UNCHANGED aux
       ELSE on_fill(side, quantity)

on_order_filled(side, quantity) ==
    /\ ~panicked
    /\ adapter_op' = "on_order_filled"
    /\ host_calls' = << >>
    /\ adapter_ret' = "Ok"
    /\ UNCHANGED << is_trading, current_quote >>
    /\ IF side = "NoOrderSide"
       THEN /\ UNCHANGED engine_side
            /\ UNCHANGED aux
       ELSE on_fill(side, quantity)

\* on_order_rejected and on_order_canceled only write a log line
on_order_rejected ==
    /\ ~panicked
    /\ adapter_op' = "on_order_rejected"
    /\ host_calls' = << >>
    /\ adapter_ret' = "Ok"
    /\ UNCHANGED << is_trading, current_quote >>
    /\ UNCHANGED engine_side
    /\ UNCHANGED aux

on_order_canceled ==
    /\ ~panicked
    /\ adapter_op' = "on_order_canceled"
    /\ host_calls' = << >>
    /\ adapter_ret' = "Ok"
    /\ UNCHANGED << is_trading, current_quote >>
    /\ UNCHANGED engine_side
    /\ UNCHANGED aux

OnStart == on_start
OnStop == \E cancel_ok \in BOOLEAN : on_stop(cancel_ok)
OnBook == \E snapshot \in OrderBookSnapshots, fail_at \in FailAt :
              on_book(snapshot, fail_at)
OnOrderFilled == \E side \in OrderSide, quantity \in FillQuantities :
                     on_order_filled(side, quantity)

OnOrderRejected == on_order_rejected
OnOrderCanceled == on_order_canceled

AdapterNext ==
    \/ OnStart
    \/ OnStop
    \/ OnBook
    \/ OnOrderFilled
    \/ OnOrderRejected
    \/ OnOrderCanceled

AdapterSpec == AdapterInit /\ [][AdapterNext]_vars

(***************************************************************************)
(* Properties.                                                             *)
(***************************************************************************)
Returned == ret # None
Quote == ret[1]

\* the last n entries of a sequence
LastN(s, n) == IF Len(s) <= n THEN s ELSE SubSeq(s, Len(s) - n + 1, Len(s))

\* the pairs of a window that the Parkinson loop accepts
valid_pairs(hl) == SelectSeq(hl, LAMBDA p : p[1] > 0 /\ p[2] > 0)

\* C1: every quote returned by on_orderbook_update has ask_price > bid_price.
AskAboveBid ==
    Returned => FGt(Quote.ask_price, Quote.bid_price)

\* C2: the spread of every returned quote lies within
\* [mid * min_spread_bps / 10000, mid * max_spread_bps / 10000] for the
\* mid-price of the snapshot of that update.
SpreadWithinBounds ==
    Returned => /\ FGe(Quote.spread, min_spread_of(config, mid_price))
                /\ FLe(Quote.spread, max_spread_of(config, mid_price))

\* C3: both rolling histories hold at most volatility_window entries in
\* every reachable state.
HistoriesBounded ==
    /\ Len(price_history) <= config.volatility_window
    /\ Len(high_low_history) <= config.volatility_window

\* both histories are full and each has already evicted an entry
HistoriesBoundedWitness ==
    /\ Len(mid_log) > config.volatility_window
    /\ Len(bar_log) > config.volatility_window
    /\ Len(price_history) = config.volatility_window
    /\ Len(high_low_history) = config.volatility_window

\* C4: eviction is strict FIFO: after n order-book updates the mid-price
\* history is the mid-prices of the last min(n, volatility_window) updates in
\* arrival order, and after m bars the (high, low) history is the pairs of
\* the last min(m, volatility_window) bars in arrival order.
HistoriesAreLastWindow ==
    /\ Len(mid_log) = orderbook_updates
    /\ price_history = LastN(mid_log, config.volatility_window)
    /\ high_low_history = LastN(bar_log, config.volatility_window)

\* both histories have evicted their oldest entry, which differs from the
\* newest one, so that the order of eviction shows
HistoriesAreLastWindowWitness ==
    /\ Len(mid_log) > config.volatility_window
    /\ Len(bar_log) > config.volatility_window
    /\ mid_log[1] # mid_log[Len(mid_log)]
    /\ bar_log[1] # bar_log[Len(bar_log)]
    /\ ~panicked

\* C5: inventory is the sum of the buy quantities minus the sum of the sell
\* quantities since construction or the last reset, never clamped.
InventoryIsAdditive ==
    inventory = buy_sum - sell_sum

\* a buy and a sell have been applied and the position is beyond the limit
InventoryIsAdditiveWitness ==
    /\ buy_sum > 0
    /\ sell_sum > 0
    /\ Abs(inventory) > config.max_inventory
    /\ inventory = buy_sum - sell_sum

\* C6: after reset, get_stats reports zero counters, zero inventory, the
\* default volatility and a zero mid-price; both histories are empty and the
\* last-update timestamp is 0.
ResetRestoresDefaults ==
    last_op = "reset" =>
        /\ get_stats = [ quote_updates         |-> 0,
                         orderbook_updates     |-> 0,
                         inventory_adjustments |-> 0,
                         current_inventory     |-> 0,
                         current_volatility    |-> DEFAULT_VOLATILITY,
                         mid_price             |-> 0 ]
        /\ price_history = << >>
        /\ high_low_history = << >>
        /\ last_update_ns = 0

\* the state right after a reset
ResetRestoresDefaultsWitness ==
    /\ last_op = "reset"
    /\ get_stats.current_volatility = DEFAULT_VOLATILITY
    /\ get_stats.quote_updates = 0

\* the history the configured estimator reads
estimator_samples ==
    IF config.use_parkinson THEN Len(high_low_history) ELSE Len(price_history)

\* C7: the stored volatility is >= 0 in every reachable state; it is the
\* default after a bar processed with fewer than 2 samples in the history of
\* the configured estimator, at construction and after reset.
VolatilityNonNegative ==
    /\ FGe(volatility, 0)
    /\ (last_op = "on_bar" /\ estimator_samples < 2)
          => volatility = DEFAULT_VOLATILITY
    /\ last_op \in {"new", "reset"} => volatility = DEFAULT_VOLATILITY

\* C8: a pair of non-positive high or low adds nothing to the sum and is not
\* counted in the divisor: the Parkinson estimate over a window equals the
\* estimate over the same window with those pairs removed (stated where at
\* least 2 valid pairs remain, C9 covering the rest).
ParkinsonSkipsInvalidPairs ==
    (last_op = "on_bar" /\ config.use_parkinson
        /\ Len(valid_pairs(high_low_history)) >= 2) =>
        volatility =
            calculate_parkinson_volatility(valid_pairs(high_low_history))

\* C9: the Parkinson estimator returns the default whenever the window holds
\* fewer than 2 valid pairs.
ParkinsonDefaultBelowTwoValid ==
    (last_op = "on_bar" /\ config.use_parkinson
        /\ Len(valid_pairs(high_low_history)) < 2)
      => volatility = DEFAULT_VOLATILITY

\* C10: on_orderbook_update, on_bar and on_fill return normally for every
\* input.
HotPathNeverFails ==
    ~panicked

\* C11: validate returns an error exactly when the risk aversion is not
\* positive, the base order size is not positive, the maximum spread is not
\* above the minimum spread, or the volatility window is zero; it returns Ok
\* for every other configuration, the default one included.
ValidateRejectsExactlyInvalid ==
    validation # "unchecked" =>
        /\ validation \in {"Ok", "Err"}
        /\ validation = "Err" <=>
              \/ candidate.risk_aversion <= 0
              \/ candidate.base_order_size <= 0
              \/ candidate.max_spread_bps <= candidate.min_spread_bps
              \/ candidate.volatility_window = 0
        /\ candidate = DefaultConfig => validation = "Ok"

ValidateRejectsExactlyInvalidWitness ==
    /\ validation = "Err"
    /\ candidate.risk_aversion = 0
    /\ candidate.base_order_size > 0
    /\ candidate.max_spread_bps > candidate.min_spread_bps
    /\ candidate.volatility_window > 0

\* C12: an engine is constructed only from a configuration that has passed
\* validation.
EngineBuiltOnlyFromValidated ==
    last_op = "new" => (validation = "Ok" /\ validate(config))

\* C13: every on_orderbook_update call returns a quote, never None, and
\* increments orderbook_updates and quote_updates by one each, so that after
\* n updates since construction or reset both counters equal n.
EveryUpdateReturnsQuote ==
    /\ last_op = "on_orderbook_update" => Returned
    /\ orderbook_updates = Len(mid_log)
    /\ quote_updates = Len(mid_log)

\* the quote for the same snapshot once a buy fill of the given quantity has
\* been applied, configuration and volatility being what they are
quote_after_buy(quantity) ==
    calculate_quotes(config, mid_price, volatility,
                     apply_fill(inventory, "Buy", quantity,
                                config.max_inventory))

OrderSizeShrinksWithInventory ==
    Returned =>
        LET full == config.base_order_size * 1000
            ratio == (Abs(inventory) * 1000) \div config.max_inventory
            capped == IF ratio > 1000 THEN 1000 ELSE ratio
        IN  /\ Quote.bid_size = Quote.ask_size
            /\ Quote.bid_size = config.base_order_size * (1000 - capped)
            /\ 0 <= Quote.bid_size
            /\ Quote.bid_size <= full
            /\ inventory = 0 => Quote.bid_size = full
            /\ Abs(inventory) >= config.max_inventory => Quote.bid_size = 0

OrderSizeShrinksWithInventoryWitness ==
    /\ Returned
    /\ Abs(inventory) > config.max_inventory
    /\ Quote.bid_size = 0
    /\ Quote.ask_size = 0

\* C16: a fill with side Buy or Sell is never rejected or altered by the
\* soft limit: on_fill applies the full quantity and returns normally, and it
\* emits the warning exactly when |inventory| > max_inventory holds after
\* the fill, not at |inventory| = max_inventory and whatever the inventory
\* was before the fill.
FillNeverRejectedBySoftLimit ==
    [][ \A quantity \in FillQuantities :
          /\ on_fill("Buy", quantity) =>
                /\ ~panicked'
                /\ inventory' = inventory + quantity
                /\ warned' <=> (Abs(inventory + quantity) > config.max_inventory)
          /\ on_fill("Sell", quantity) =>
                /\ ~panicked'
                /\ inventory' = inventory - quantity
                /\ warned' <=> (Abs(inventory - quantity) > config.max_inventory)
      ]_vars

FillNeverRejectedBySoftLimitWitness ==
    /\ last_op = "on_fill"
    /\ ~panicked
    /\ inventory_adjustments = 2
    /\ Abs(inventory) = config.max_inventory
    /\ ~warned
    /\ inventory = buy_sum - sell_sum

\* C17: on_bar produces no quote and changes only the (high, low) history
\* and the volatility estimate: it appends exactly one (high, low) pair and
\* leaves the mid-price, the inventory, the mid-price history, the three
\* counters and the last-update timestamp unchanged.
OnBarChangesOnlyBarsAndVolatility ==
    [][ BarUpdate =>
          /\ ret' = None
          /\ \E bar \in Bars :
                high_low_history' =
                    LastN(Append(high_low_history, << bar.high, bar.low >>),
                          config.volatility_window)
          /\ Len(bar_log') = Len(bar_log) + 1
          /\ UNCHANGED << mid_price, inventory, price_history, quote_updates,
                          orderbook_updates, inventory_adjustments,
                          last_update_ns, config >>
      ]_vars

OnBarChangesOnlyBarsAndVolatilityWitness ==
    /\ last_op = "on_bar"
    /\ ret = None
    /\ orderbook_updates > 0
    /\ inventory # 0
    /\ Len(bar_log) > config.volatility_window
    /\ Len(high_low_history) = config.volatility_window
    /\ volatility # DEFAULT_VOLATILITY

\* the variance the recurrence gives for a non-empty sequence of returns
RECURSIVE ewma_recurrence(_, _)
ewma_recurrence(alpha, returns) ==
    LET n == Len(returns)
        r == returns[n]
    IN  IF n = 1 THEN r * r
        ELSE (alpha * r * r
                + (AlphaScale - alpha)
                    * ewma_recurrence(alpha, SubSeq(returns, 1, n - 1)))
               \div AlphaScale

\* C18: EWMAVolatility follows the recurrence on its variance v: the first
\* update with return r sets v = r^2, each later update sets
\* v = alpha * r^2 + (1 - alpha) * v_prev, update returns sqrt(v) >= 0, and
\* after r0 then r1 the variance is alpha * r1^2 + (1 - alpha) * r0^2.
EwmaFollowsRecurrence ==
    LET n == Len(ewma_log)
    IN  /\ n = 0 => (~ewma.initialized /\ ewma.variance = 0 /\ ewma_out = None)
        /\ n >= 1 =>
              /\ ewma.initialized
              /\ ewma.variance = ewma_recurrence(ewma.alpha, ewma_log)
              /\ ewma_out # None
              /\ ewma_out[1] >= 0
              /\ ewma_out[1] * ewma_out[1] <= ewma.variance
              /\ (ewma_out[1] + 1) * (ewma_out[1] + 1) > ewma.variance
        /\ n = 1 => ewma.variance = ewma_log[1] * ewma_log[1]
        /\ n = 2 =>
              ewma.variance =
                  (ewma.alpha * ewma_log[2] * ewma_log[2]
                     + (AlphaScale - ewma.alpha) * ewma_log[1] * ewma_log[1])
                    \div AlphaScale

EwmaFollowsRecurrenceWitness ==
    /\ ewma.alpha = 94
    /\ ewma_log = << 10, -15 >>
    /\ ewma.variance = 217
    /\ ewma_out = Some(14)

\* C19: the standard log-return estimator, applied to a mid-price history
\* of at least 2 strictly positive prices, returns a finite value >= 0
\* computed only from the prices still in the bounded window; for 30
\* strictly increasing mid-prices (step +10 from 50000, window 20) the
\* result is > 0 and < 1.
StandardVolatilityFromWindow ==
    (std_out # None /\ Len(mid_log) >= 2) =>
        LET vol == std_out[1]
            window == LastN(mid_log, config.volatility_window)
        IN  /\ \A i \in 1..Len(mid_log) : mid_log[i] > 0
            /\ ~IsNaN(vol)
            /\ vol >= 0
            /\ vol = calculate_standard_volatility_fine(window)
            /\ (/\ scenario = Some([start |-> 50000, step |-> 10])
                /\ Len(mid_log) = TestPushes
                /\ config.volatility_window = TestWindow)
                 => (vol > 0 /\ vol < FineScale)

StandardVolatilityFromWindowWitness ==
    /\ scenario = Some([start |-> 50000, step |-> 10])
    /\ Len(mid_log) = TestPushes
    /\ Len(price_history) = TestWindow
    /\ std_out # None
    /\ std_out[1] > 0
    /\ std_out[1] < FineScale \div 1000000

\* the mutable fields as AvellanedaStoikov::new leaves them
fresh_engine == << 0, DEFAULT_VOLATILITY, 0, << >>, << >>, 0, 0, 0, 0 >>

fresh_stats ==
    [ quote_updates |-> 0, orderbook_updates |-> 0,
      inventory_adjustments |-> 0, current_inventory |-> 0,
      current_volatility |-> DEFAULT_VOLATILITY, mid_price |-> 0 ]

\* C20: reset is indistinguishable from fresh construction: whatever events
\* came before it, the reset engine answers every further event sequence
\* with the same quotes and the same get_stats results as a newly
\* constructed engine with the same configuration, and reset leaves the
\* configuration unchanged.  Every handler is a function of the
\* configuration, the mutable fields and its argument, so this is: reset
\* leaves the configuration as it was and every mutable field as new sets it.
ResetIsFreshConstruction ==
    [][ reset =>
          /\ config' = config
          /\ engine' = fresh_engine
          /\ get_stats' = fresh_stats
          /\ \A snapshot \in OrderBookSnapshots :
                LET mid == (snapshot.best_bid + snapshot.best_ask)
                              * (QuoteScale \div 2)
                IN  calculate_quotes(config', mid, volatility', inventory')
                      = calculate_quotes(config, mid, DEFAULT_VOLATILITY, 0)
      ]_vars

ResetIsFreshConstructionWitness ==
    /\ last_op = "reset"
    /\ engine = fresh_engine
    /\ get_stats = fresh_stats
    /\ config \in Configs
    /\ ~config.use_parkinson

\* f64 ==, + and -: a NaN operand makes the comparison false and the
\* result NaN
FEq(a, b) == ~IsNaN(a) /\ ~IsNaN(b) /\ a = b
FAdd(a, b) == IF IsNaN(a) \/ IsNaN(b) THEN NaN ELSE a + b
FSub(a, b) == IF IsNaN(a) \/ IsNaN(b) THEN NaN ELSE a - b

\* C21: the inventory penalty shifts bid and ask by the same amount, so for
\* every quote ask_price - bid_price equals the reported spread and the
\* midpoint of bid and ask equals
\* reservation_price - inventory * inventory_penalty_factor * volatility.
PenaltyShiftsBothSides ==
    Returned =>
        /\ FEq(FSub(Quote.ask_price, Quote.bid_price), Quote.spread)
        /\ FEq(FAdd(Quote.ask_price, Quote.bid_price),
               FAdd(FSub(Quote.reservation_price,
                         inventory_penalty_of(config, volatility, inventory)),
                    FSub(Quote.reservation_price,
                         inventory_penalty_of(config, volatility, inventory))))

\* C22: for every quote reservation_price = mid - inventory * risk_aversion
\* * volatility^2 * time_horizon, mid being (best_bid + best_ask) / 2 of the
\* snapshot just processed; reservation_price = mid when the inventory is 0,
\* and get_stats.mid_price is that mid afterwards.
ReservationPriceFormula ==
    Returned =>
        LET mid == mid_log[Len(mid_log)]
        IN  /\ get_stats.mid_price = mid
            /\ FEq(Quote.reservation_price,
                   FSub(mid, reservation_skew(config, volatility, inventory)))
            /\ inventory = 0 => FEq(Quote.reservation_price, mid)

\* C23: the volatility estimate changes only in on_bar and reset:
\* on_orderbook_update and on_fill leave it unchanged, so in standard mode
\* the mid-prices pushed by order-book updates affect quotes only after the
\* next bar, and with no bars every quote uses volatility 0.01.
VolatilityChangesOnlyOnBarAndReset ==
    [][ /\ (OrderbookUpdate \/ Fill) => volatility' = volatility
        /\ volatility' # volatility => (BarUpdate \/ reset)
        /\ (ret' # None /\ bar_log' = << >>) =>
              /\ volatility' = DEFAULT_VOLATILITY
              /\ ret'[1] = calculate_quotes(config, mid_price',
                                            DEFAULT_VOLATILITY, inventory')
      ]_vars

VolatilityChangesOnlyOnBarAndResetWitness ==
    /\ Returned
    /\ ~config.use_parkinson
    /\ bar_log = << >>
    /\ Len(price_history) >= 2
    /\ \A i \in 1..Len(price_history) : price_history[i] > 0
    /\ volatility = DEFAULT_VOLATILITY
    /\ calculate_standard_volatility(price_history) # DEFAULT_VOLATILITY
    /\ Quote = calculate_quotes(config, mid_price, DEFAULT_VOLATILITY, inventory)

\* C24: on_fill with side Buy or Sell increments inventory_adjustments by
\* exactly 1 and changes only the inventory and that counter: the mid-price,
\* the volatility, both histories, quote_updates, orderbook_updates and the
\* last-update timestamp are unchanged, and no quote is produced.
OnFillChangesOnlyInventory ==
    [][ \A side \in {"Buy", "Sell"}, quantity \in FillQuantities :
          on_fill(side, quantity) =>
            /\ inventory_adjustments' = inventory_adjustments + 1
            /\ inventory' # inventory
            /\ ret' = None
            /\ UNCHANGED << mid_price, volatility, price_history,
                            high_low_history, quote_updates,
                            orderbook_updates, last_update_ns, config >>
      ]_vars

OnFillChangesOnlyInventoryWitness ==
    /\ last_op = "on_fill"
    /\ ~panicked
    /\ ret = None
    /\ inventory # 0
    /\ orderbook_updates > 0
    /\ last_update_ns > 0
    /\ Len(high_low_history) > 0
    /\ volatility # DEFAULT_VOLATILITY

\* the changes of inventory that sequences of up to two fills bring about
FillOffsets ==
    { a + b : a, b \in {0} \cup FillQuantities
                        \cup { 0 - quantity : quantity \in FillQuantities } }

\* C25: the quoted spread does not depend on the inventory: for the same
\* snapshot, configuration and volatility, the quotes computed before and
\* after any sequence of fills report the same spread value (a spread that
\* is NaN before is NaN after); fills move only reservation_price,
\* bid_price, ask_price and the sizes.
SpreadIndependentOfInventory ==
    Returned =>
        \A offset \in FillOffsets :
            calculate_quotes(config, mid_price, volatility,
                             inventory + offset).spread = Quote.spread

SpreadIndependentOfInventoryWitness ==
    /\ Returned
    /\ inventory # 0
    /\ ~IsNaN(Quote.spread)
    /\ Quote.spread > min_spread_of(config, mid_price)
    /\ Quote.spread < max_spread_of(config, mid_price)
    /\ LET flat == calculate_quotes(config, mid_price, volatility, 0)
       IN  /\ flat.spread = Quote.spread
           /\ flat.bid_price # Quote.bid_price
           /\ flat.ask_price # Quote.ask_price
           /\ flat.reservation_price # Quote.reservation_price
           /\ flat.bid_size # Quote.bid_size

\* C26: the adapter acts on order books only while trading: is_trading is
\* false at construction, becomes true on on_start and false on on_stop; an
\* on_book received while is_trading is false changes neither the engine
\* state nor current_quote and issues no cancel or submit, so no order is
\* submitted before the first on_start or between an on_stop and the next
\* on_start.
AdapterActsOnlyWhileTrading ==
    [][ /\ adapter_op = "new" => ~is_trading
        /\ OnStart => is_trading'
        /\ OnStop => ~is_trading'
        /\ is_trading' # is_trading => (OnStart \/ OnStop)
        /\ (OnBook /\ ~is_trading) =>
              /\ UNCHANGED << engine, current_quote, config >>
              /\ host_calls' = << >>
              /\ adapter_ret' = "Ok"
        /\ ~is_trading =>
              \A i \in 1..Len(host_calls') :
                  host_calls'[i].call \notin {"submit_order",
                                              "create_limit_order"}
      ]_vars

AdapterActsOnlyWhileTradingWitness ==
    /\ adapter_op = "on_book"
    /\ ~is_trading
    /\ host_calls = << >>
    /\ orderbook_updates > 0
    /\ orderbook_updates < MaxOrderbookUpdates
    /\ current_quote # None

\* the kinds of host call, in the order update_orders is to issue them
routing_order ==
    << << "cancel_all_orders", "none" >>, << "create_limit_order", "Buy" >>,
       << "create_limit_order", "Sell" >>, << "submit_order", "Buy" >>,
       << "submit_order", "Sell" >> >>

call_kind(c) ==
    << c.call, IF c.call = "cancel_all_orders" THEN "none" ELSE c.side >>

\* C27: for each order book accepted while trading the adapter routes the
\* new quote in a fixed order: cancel-all first, then creation of the bid
\* and of the ask order, then submission of the bid, then of the ask; the
\* ask is never submitted unless the bid submission succeeded, neither is
\* submitted if the cancel or a creation failed, and both are submitted
\* even when the quoted size is 0.
QuoteRoutedInFixedOrder ==
    [][ \A snapshot \in OrderBookSnapshots, fail_at \in FailAt :
          (is_trading /\ on_book(snapshot, fail_at) /\ ~panicked') =>
            LET issued == IF fail_at = 0 THEN 5 ELSE fail_at
            IN  /\ current_quote' = ret'
                /\ current_quote' # None
                /\ Len(host_calls') = issued
                /\ \A i \in 1..issued :
                      call_kind(host_calls'[i]) = routing_order[i]
                /\ adapter_ret' = IF fail_at = 0 THEN "Ok" ELSE "Err"
                /\ issued >= 2 =>
                      host_calls'[2].quantity
                        = Quantity_new(current_quote'[1].bid_size)
                /\ issued >= 3 =>
                      host_calls'[3].quantity
                        = Quantity_new(current_quote'[1].ask_size)
      ]_vars

QuoteRoutedInFixedOrderWitness ==
    /\ adapter_op = "on_book"
    /\ is_trading
    /\ adapter_ret = "Ok"
    /\ current_quote # None
    /\ current_quote[1].bid_size = 0
    /\ Len(host_calls) = 5
    /\ host_calls[2].quantity = 0
    /\ call_kind(host_calls[4]) = << "submit_order", "Buy" >>
    /\ call_kind(host_calls[5]) = << "submit_order", "Sell" >>

\* C28: the adapter's on_order_filled returns Ok and leaves inventory and
\* inventory_adjustments unchanged for a fill event with no order side, so
\* through the adapter the engine's on_fill is only ever invoked with side
\* Buy or Sell and its unimplemented no-side branch is not reached.
NoSideFillIsIgnored ==
    [][ /\ \A quantity \in FillQuantities :
              on_order_filled("NoOrderSide", quantity) =>
                /\ adapter_ret' = "Ok"
                /\ ~panicked'
                /\ UNCHANGED << inventory, inventory_adjustments, last_op >>
        /\ last_op' = "on_fill" => ~panicked'
      ]_vars

NoSideFillIsIgnoredWitness ==
    /\ adapter_op = "on_order_filled"
    /\ adapter_ret = "Ok"
    /\ last_op = "on_orderbook_update"
    /\ inventory_adjustments > 0
    /\ ~panicked

\* C29: fills are applied to the inventory regardless of the trading flag:
\* an on_order_filled with side Buy or Sell received before on_start or
\* after on_stop still changes the engine's inventory and increments
\* inventory_adjustments, so the first quote after a later on_start
\* reflects the fills that arrived while not trading.
FillsAppliedWhileNotTrading ==
    [][ /\ \A quantity \in FillQuantities :
              /\ on_order_filled("Buy", quantity) =>
                    /\ inventory' = inventory + quantity
                    /\ inventory_adjustments' = inventory_adjustments + 1
              /\ on_order_filled("Sell", quantity) =>
                    /\ inventory' = inventory - quantity
                    /\ inventory_adjustments' = inventory_adjustments + 1
        /\ (OnBook /\ is_trading /\ ~panicked') =>
              current_quote' =
                  Some(calculate_quotes(config, mid_price', volatility,
                                        buy_sum - sell_sum))
      ]_vars

FillsAppliedWhileNotTradingWitness ==
    /\ adapter_op = "on_order_filled"
    /\ last_op = "on_fill"
    /\ ~is_trading
    /\ inventory # 0
    /\ inventory_adjustments > 0
    /\ inventory = buy_sum - sell_sum

====
